---- MODULE Spec2Model ----
(***************************************************************************)
(* Model of the multi-angle generation tool of qwen-3dgs:                  *)
(*   src/config.py      the configuration values                           *)
(*   src/api_client.py  APIClient.generate_multi_angle_views and           *)
(*                      APIClient._call_api_with_retry                     *)
(*   src/image_processor.py  validate_local_image, save_generated_images,  *)
(*                      create_output_directory                            *)
(*   src/main.py        main: validation, upload, generation, saving,      *)
(*                      montage, exit status                               *)
(* The client is one thread of control.  It is cut into steps at the       *)
(* points where it blocks: time.sleep (throttle, backoff) and the call of  *)
(* fal_client.subscribe.  The endpoint is the environment: it answers a    *)
(* call with a result dictionary or with an exception.                     *)
(* Durations are integers in one unit (milliseconds for the values of      *)
(* config.py).  Texts are sequences of one-character strings, so that the  *)
(* substring tests of the code are computed and not assumed.  A Python     *)
(* value that may be None is <<>> for None and <<v>> for v.                *)
(***************************************************************************)
EXTENDS Integers, Sequences, FiniteSets, TLC

VARIABLES
    config,           \* the values of config.py read by the client
    endpoint,         \* what the endpoint may answer: [payloads, failures]
    pc,               \* where the client is
    i,                \* enumerate index of the angle loop (0 before the loop)
    angle,            \* loop variable of generate_multi_angle_views
    total_images,     \* FULL_ROTATION // ROTATION_INCREMENT, as logged
    results,          \* the list generate_multi_angle_views collects
    attempt,          \* loop variable of _call_api_with_retry
    retry_delay,      \* local of _call_api_with_retry
    last_error,       \* local of _call_api_with_retry
    returned,         \* <<>> or <<the list returned to the caller>>
    raised,           \* the exception that left generate_multi_angle_views
    \* ---- history, written but never read by the client ----
    requestedAngles,  \* the angle of every first attempt, in issue order
    received,         \* the [angle, result] of every result that was appended
    issued,           \* requests issued by the current _call_api_with_retry
    failLog,          \* the failures the current _call_api_with_retry got
    sleeps,           \* backoff sleeps of the current _call_api_with_retry
    throttles,        \* durations of the throttle sleeps completed so far
    sleptSince,       \* time slept since the latest request was issued
    gap,              \* time slept between the two latest requests
    inflight,         \* requests issued and not yet answered
    anyFailure,       \* some attempt of this run failed
    numRequests,      \* requests issued so far in this run, when counted
    counting,         \* whether numRequests is kept (it is history only)
    call,             \* the arguments generate_multi_angle_views is called with
    sent,             \* history: [angle, arguments] of every request issued
    \* ---- main and the image processor ----
    mainpc,           \* where main is ("off": the client is used on its own)
    image,            \* the file at args.image: [name, exists, is_file, decodable]
    no_montage,       \* args.no_montage
    verror,           \* the exception validate_local_image raised, or NoError
    exit_status,      \* <<>> while the process runs, <<n>> once it has exited
    to_save,          \* the results argument of save_generated_images
    save_idx,         \* position of its loop in to_save (1-based)
    saved_files,      \* the list save_generated_images collects
    save_returned,    \* <<>> or <<the list save_generated_images returned>>
    save_raised,      \* an exception left save_generated_images
    \* ---- history, written but never read by the program ----
    decodes,          \* calls of Image.open made by validate_local_image
    fetchLog,         \* the outcome of the download of every entry, in order
    fetched,          \* the [idx, url] of every requests.get, in call order
    written,          \* the files written below the output directory
    dirCreated,       \* the output directory was created
    montage           \* what became of the montage

vars == << config, endpoint, pc, i, angle, total_images, results, attempt,
           retry_delay, last_error, returned, raised, requestedAngles,
           received, issued, failLog, sleeps, throttles, sleptSince, gap,
           inflight, anyFailure, numRequests, counting, call, sent, mainpc,
           image,
           no_montage, verror, exit_status, to_save, save_idx, saved_files,
           save_returned, save_raised, decodes, fetchLog, fetched, written,
           dirCreated, montage >>

pipeline == << mainpc, image, no_montage, verror, exit_status, to_save,
              save_idx, saved_files, save_returned, save_raised, decodes,
              fetchLog, fetched, written, dirCreated, montage >>

client == << pc, i, angle, total_images, results, attempt, retry_delay,
             last_error, returned, raised >>

-----------------------------------------------------------------------------
(* Bounds of the model *)

MaxFull == 3
MaxInc == 2
MaxRetries == 3
MaxDelay == 2

-----------------------------------------------------------------------------
(* Python helpers *)

Min(a, b) == IF a <= b THEN a ELSE b

\* faulty range: the first element is start + step
PyRangeFromStep(start, stop, step) ==
    [k \in 1 .. (IF stop > start THEN (stop - start + step - 1) \div step ELSE 0)
        |-> start + k * step]

\* range(start, stop, step) for step > 0, as a sequence
PyRange(start, stop, step) ==
    [k \in 1 .. (IF stop > start THEN (stop - start + step - 1) \div step ELSE 0)
        |-> start + (k - 1) * step]

\* needle in haystack, for texts
Contains(haystack, needle) ==
    \E s \in 0 .. (Len(haystack) - Len(needle)) :
        \A k \in 1 .. Len(needle) : haystack[s + k] = needle[k]

LowerChar(c) ==
    CASE c = "R" -> "r"
      [] c = "L" -> "l"
      [] c = "A" -> "a"
      [] c = "T" -> "t"
      [] c = "E" -> "e"
      [] c = "I" -> "i"
      [] c = "M" -> "m"
      [] c = "P" -> "p"
      [] c = "N" -> "n"
      [] c = "G" -> "g"
      [] OTHER -> c

\* str.lower()
Lower(s) == [k \in 1 .. Len(s) |-> LowerChar(s[k])]

\* the characters of the texts the model uses
T429 == << "4", "2", "9" >>
TRateLimit == << "R", "a", "t", "e", " ", "L", "i", "m", "i", "t" >>
TBoom == << "b", "o", "o", "m" >>
T500 == << "5", "0", "0" >>
TRequestTimeout ==
    << "R", "e", "q", "u", "e", "s", "t", " ", "t", "i", "m", "e", "o", "u", "t" >>
TRateLimitPrefix ==
    << "R", "a", "t", "e", " ", "l", "i", "m", "i", "t", ":", " " >>
TNone == << "N", "o", "n", "e" >>

\* f"{x}" of a value that may be None
Format(opt) == IF opt = << >> THEN TNone ELSE opt[1]

-----------------------------------------------------------------------------
(* Configuration: src/config.py *)

DefaultConfig ==
    [ FULL_ROTATION |-> 360, ROTATION_INCREMENT |-> 5, THROTTLE_DELAY |-> 1500,
      MAX_RETRIES |-> 5, INITIAL_RETRY_DELAY |-> 2000, MAX_RETRY_DELAY |-> 60000 ]

\* small configurations: every value positive, the initial retry delay not
\* above the maximum, the maximum low enough for the cap to be reached
SmallConfigs ==
    [ FULL_ROTATION : 1 .. MaxFull, ROTATION_INCREMENT : 1 .. MaxInc,
      THROTTLE_DELAY : 1 .. MaxDelay, MAX_RETRIES : 1 .. MaxRetries,
      INITIAL_RETRY_DELAY : 1 .. MaxDelay, MAX_RETRY_DELAY : {MaxDelay + 1} ]

FULL_ROTATION == config.FULL_ROTATION
ROTATION_INCREMENT == config.ROTATION_INCREMENT
THROTTLE_DELAY == config.THROTTLE_DELAY
MAX_RETRIES == config.MAX_RETRIES
INITIAL_RETRY_DELAY == config.INITIAL_RETRY_DELAY
MAX_RETRY_DELAY == config.MAX_RETRY_DELAY
RETRY_BACKOFF_MULTIPLIER == 2

-----------------------------------------------------------------------------
(* The endpoint: what fal_client.subscribe may return or raise *)

\* result dictionaries: the image urls and the seed (absent or None: <<>>)
Payloads ==
    { [images |-> << "u1", "u2" >>, seed |-> << 7 >>],
      [images |-> << "u2" >>, seed |-> << >>],
      [images |-> << >>, seed |-> << 7 >>],
      [seed |-> << 7 >>] }

\* exceptions: requests.exceptions.Timeout, or any other exception, with str(e)
Failures ==
    { [kind |-> "Timeout", text |-> T429],
      [kind |-> "Error", text |-> T429],
      [kind |-> "Error", text |-> TRateLimit],
      [kind |-> "Error", text |-> TBoom],
      [kind |-> "Error", text |-> T500] }

FreeEndpoint == [payloads |-> Payloads, failures |-> Failures]

\* a mocked endpoint: one result dictionary and one kind of failure
MockEndpoints ==
    { [payloads |-> {p}, failures |-> {f}] : p \in Payloads, f \in Failures }

-----------------------------------------------------------------------------
(* Exceptions *)

NoException == [type |-> "None", after |-> 0, text |-> << >>]

\* RateLimitError(f"Rate limit exceeded after {MAX_RETRIES} retries: {error_str}")
RateLimitError(error_str) ==
    [type |-> "RateLimitError", after |-> MAX_RETRIES, text |-> error_str]

\* Exception(f"API call failed after {MAX_RETRIES} attempts. Last error: {last_error}")
GenerationFailed(le) ==
    [type |-> "Exception", after |-> MAX_RETRIES, text |-> Format(le)]

\* result["images"][0] of an empty or missing list
IndexError == [type |-> "IndexError", after |-> 0, text |-> << >>]

\* result["images"] of a result without that key
KeyError == [type |-> "KeyError", after |-> 0, text |-> << >>]

\* what result["images"][0] raises, NoException when there is a first image
FirstImageError(result) ==
    IF "images" \notin DOMAIN result THEN KeyError
    ELSE IF result.images = << >> THEN IndexError
    ELSE NoException

-----------------------------------------------------------------------------
(* generate_multi_angle_views and _call_api_with_retry, piece by piece *)

\* the angles of the loop
Angles == PyRange(0, FULL_ROTATION, ROTATION_INCREMENT)

\* faulty entry: the last image instead of the first, no seed
ResultEntryLastImage(a, result) ==
    [angle |-> a, url |-> result.images[Len(result.images)], seed |-> << >>]

\* the dictionary appended to results
ResultEntry(a, result) ==
    [angle |-> a, url |-> result.images[1], seed |-> result.seed]

\* faulty test: case-sensitive
IsRateLimitCaseSensitive(error_str) ==
    Contains(error_str, T429) \/ Contains(error_str, Lower(TRateLimit))

\* "429" in error_str or "rate limit" in error_str.lower()
IsRateLimit(error_str) ==
    Contains(error_str, T429) \/ Contains(Lower(error_str), Lower(TRateLimit))

\* faulty test: one attempt early
IsFinalAttemptEarly(att) == att >= MAX_RETRIES - 1

\* faulty test: the final attempt is not recognised
IsFinalAttemptNever(att) == FALSE

\* attempt == MAX_RETRIES
IsFinalAttempt(att) == att = MAX_RETRIES

\* faulty range: one attempt more
AttemptRangeOneMore == 1 .. (MAX_RETRIES + 1)

\* range(1, MAX_RETRIES + 1)
AttemptRange == 1 .. MAX_RETRIES

\* faulty test: sleeps after the final attempt too
ShouldSleepAlways(att) == att <= MAX_RETRIES

\* faulty test: retries at once, without backoff
ShouldSleepNever(att) == FALSE

\* attempt < MAX_RETRIES
ShouldSleep(att) == att < MAX_RETRIES

\* the angle wrapped into the range -180 .. 180
RotateRightLeftSigned(a) ==
    IF 2 * a > FULL_ROTATION THEN a - FULL_ROTATION ELSE a

\* rotate_right_left = angle
RotateRightLeft(a) == a

\* the arguments of main's call with the defaults of config.py and argparse;
\* scales in tenths
DefaultCall ==
    [image_url |-> "data:a", guidance_scale |-> 10, num_inference_steps |-> 6,
     lora_scale |-> 10, move_forward |-> 0, vertical_angle |-> 0,
     wide_angle_lens |-> FALSE, output_format |-> "png"]

\* a call that differs from the default one in every argument
OtherCall ==
    [image_url |-> "data:b", guidance_scale |-> 45, num_inference_steps |-> 20,
     lora_scale |-> 15, move_forward |-> 20, vertical_angle |-> -10,
     wide_angle_lens |-> TRUE, output_format |-> "webp"]

\* the arguments dictionary handed to fal_client.subscribe
Arguments(rotate_right_left) ==
    [image_urls |-> << call.image_url >>,
     guidance_scale |-> call.guidance_scale,
     num_inference_steps |-> call.num_inference_steps,
     acceleration |-> "regular",
     negative_prompt |-> " ",
     enable_safety_checker |-> TRUE,
     output_format |-> call.output_format,
     num_images |-> 1,
     rotate_right_left |-> rotate_right_left,
     move_forward |-> call.move_forward,
     vertical_angle |-> call.vertical_angle,
     wide_angle_lens |-> call.wide_angle_lens,
     lora_scale |-> call.lora_scale]

\* faulty backoff: no cap
NextRetryDelayNoCap(d) == d * RETRY_BACKOFF_MULTIPLIER

\* min(retry_delay * RETRY_BACKOFF_MULTIPLIER, MAX_RETRY_DELAY)
NextRetryDelay(d) == Min(d * RETRY_BACKOFF_MULTIPLIER, MAX_RETRY_DELAY)

\* faulty throttle: no sleep before the first angle
ThrottleSleepSkipFirst == IF i = 1 THEN 0 ELSE THROTTLE_DELAY

\* time.sleep(THROTTLE_DELAY)
ThrottleSleep == THROTTLE_DELAY

\* faulty entry into the attempt loop: the state of the previous angle is kept
InitialRetryStateStale ==
    [ retry_delay |-> IF i > 1 THEN retry_delay ELSE INITIAL_RETRY_DELAY,
      last_error |-> last_error ]

\* retry_delay = INITIAL_RETRY_DELAY; last_error = None
InitialRetryState ==
    [ retry_delay |-> INITIAL_RETRY_DELAY, last_error |-> << >> ]

\* faulty handler: logs and tries the same angle again
ExceptHandlerRetryAngle(exc) == [pc |-> "throttle", raised |-> NoException]

\* faulty handler: logs, skips the angle and continues
ExceptHandlerSkip(exc) == [pc |-> "loop", raised |-> NoException]

\* except RateLimitError: raise / except Exception: raise
ExceptHandler(exc) == [pc |-> "raised", raised |-> exc]

\* an exception leaves the try block of the angle loop
Propagate(exc) ==
    /\ pc' = ExceptHandler(exc).pc
    /\ raised' = ExceptHandler(exc).raised

\* the head of the attempt loop, reached after a failed attempt
NextAttempt(le) ==
    IF attempt + 1 \in AttemptRange
    THEN /\ attempt' = attempt + 1
         /\ pc' = "call"
         /\ raised' = raised
    ELSE /\ attempt' = attempt
         /\ Propagate(GenerationFailed(le))

-----------------------------------------------------------------------------
(* The image processor: validate_local_image *)

\* config.SUPPORTED_FORMATS
SUPPORTED_FORMATS ==
    { << ".", "j", "p", "g" >>, << ".", "j", "p", "e", "g" >>,
      << ".", "p", "n", "g" >>, << ".", "w", "e", "b", "p" >>,
      << ".", "b", "m", "p" >>, << ".", "g", "i", "f" >> }

\* the position of the last "." of a name, 0 when it has none
LastDot(name) ==
    IF \E k \in 1 .. Len(name) : name[k] = "."
    THEN CHOOSE k \in 1 .. Len(name) :
            /\ name[k] = "."
            /\ \A j \in (k + 1) .. Len(name) : name[j] # "."
    ELSE 0

\* Path(name).suffix: from the last dot on, unless the dot leads or ends the name
Suffix(name) ==
    IF 1 < LastDot(name) /\ LastDot(name) < Len(name)
    THEN SubSeq(name, LastDot(name), Len(name))
    ELSE << >>

\* the file names main may be given
ImageNames ==
    { << "a", ".", "p", "n", "g" >>, << "a", ".", "P", "N", "G" >>,
      << "a", ".", "t", "x", "t" >>, << "a" >>,
      << ".", "p", "n", "g" >>, << "a", ".", "p", "n", "g", ".", "t", "x", "t" >> }

\* what is at the path: nothing, a directory, or a file that decodes or not
ImageFiles ==
    { f \in [name : ImageNames, exists : BOOLEAN, is_file : BOOLEAN,
             decodable : BOOLEAN] :
        /\ f.is_file => f.exists
        /\ f.decodable => f.is_file }

NoError == [type |-> "None", message |-> "None"]
FileNotFoundError == [type |-> "FileNotFoundError", message |-> "Image file not found"]
NotAFileError == [type |-> "ValueError", message |-> "Path is not a file"]
UnsupportedFormatError == [type |-> "ValueError", message |-> "Unsupported image format"]
InvalidImageError == [type |-> "ValueError", message |-> "Invalid image file"]

\* the outcome of Image.open in validate_local_image
OpenImage(f) == IF f.decodable THEN NoError ELSE InvalidImageError

\* the image opened before its extension is looked at
ValidateLocalImageDecodeFirst(f) ==
    IF ~ f.exists THEN [raised |-> FileNotFoundError, decodes |-> 0]
    ELSE IF ~ f.is_file THEN [raised |-> NotAFileError, decodes |-> 0]
    ELSE IF OpenImage(f) # NoError
    THEN [raised |-> OpenImage(f), decodes |-> 1]
    ELSE IF Lower(Suffix(f.name)) \notin SUPPORTED_FORMATS
    THEN [raised |-> UnsupportedFormatError, decodes |-> 1]
    ELSE [raised |-> NoError, decodes |-> 1]

\* validate_local_image: what it raises (NoError: it returns the path) and
\* how often it has called Image.open
ValidateLocalImage(f) ==
    IF ~ f.exists THEN [raised |-> FileNotFoundError, decodes |-> 0]
    ELSE IF ~ f.is_file THEN [raised |-> NotAFileError, decodes |-> 0]
    ELSE IF Lower(Suffix(f.name)) \notin SUPPORTED_FORMATS
    THEN [raised |-> UnsupportedFormatError, decodes |-> 0]
    ELSE [raised |-> OpenImage(f), decodes |-> 1]

-----------------------------------------------------------------------------
(* The image processor: save_generated_images *)

MaxSave == 3

DigitChar(d) ==
    CASE d = 0 -> "0" [] d = 1 -> "1" [] d = 2 -> "2" [] d = 3 -> "3"
      [] d = 4 -> "4" [] d = 5 -> "5" [] d = 6 -> "6" [] d = 7 -> "7"
      [] d = 8 -> "8" [] d = 9 -> "9"

RECURSIVE Digits(_)
\* the decimal digits of n >= 0
Digits(n) ==
    IF n < 10 THEN << DigitChar(n) >>
    ELSE Append(Digits(n \div 10), DigitChar(n % 10))

RECURSIVE ZeroPad(_, _)
\* format specification 0<width>d applied to the digits of a number
ZeroPad(digits, width) ==
    IF Len(digits) >= width THEN digits
    ELSE ZeroPad(<< "0" >> \o digits, width)

TPng == << "p", "n", "g" >>

\* f"view_{angle:03d}deg.{image_format}"
FileName(a, image_format) ==
    << "v", "i", "e", "w", "_" >> \o ZeroPad(Digits(a), 3)
        \o << "d", "e", "g", "." >> \o image_format

\* what may happen to one entry: the file is written; requests.get raises;
\* raise_for_status raises; open or write raises
FetchOutcomes == { "ok", "get_raises", "http_error", "write_error" }

\* the exception of a failed entry leaves the function
AfterFetchReraise(outcome, output_path) ==
    IF outcome = "ok"
    THEN [saved_files |-> Append(saved_files, output_path), raised |-> FALSE]
    ELSE [saved_files |-> saved_files, raised |-> TRUE]

\* the path appended before the download
AfterFetchAppendFirst(outcome, output_path) ==
    [saved_files |-> Append(saved_files, output_path), raised |-> FALSE]

\* the body of the loop of save_generated_images after the download: the
\* path is appended on success, the exception is logged and dropped otherwise
AfterFetch(outcome, output_path) ==
    IF outcome = "ok"
    THEN [saved_files |-> Append(saved_files, output_path), raised |-> FALSE]
    ELSE [saved_files |-> saved_files, raised |-> FALSE]

\* a failed entry tried again
NextSaveIdxRetryFailed(outcome) ==
    IF outcome = "ok" THEN save_idx + 1 ELSE save_idx

\* the for loop over results: the next entry, whatever became of this one
NextSaveIdx(outcome) == save_idx + 1

\* the angles and urls of the entries save_generated_images is tried on
SaveAngles == { 0, 5, 120 }
SaveUrls == { "u1", "u2" }

\* every list of entries of at most MaxSave entries
SaveInputs ==
    UNION { [1 .. n -> [angle : SaveAngles, url : SaveUrls, seed : { << >> }]] :
              n \in 0 .. MaxSave }

-----------------------------------------------------------------------------
(* Initial states: the client is constructed, nothing has been called *)

\* a readable image file
DefaultImage ==
    [name |-> << "a", ".", "p", "n", "g" >>, exists |-> TRUE, is_file |-> TRUE,
     decodable |-> TRUE]

\* main and the image processor before anything has happened
InitPipeline ==
    /\ verror = NoError
    /\ exit_status = << >>
    /\ to_save = << >>
    /\ save_idx = 0
    /\ saved_files = << >>
    /\ save_returned = << >>
    /\ save_raised = FALSE
    /\ decodes = 0
    /\ fetchLog = << >>
    /\ fetched = << >>
    /\ written = { }
    /\ dirCreated = FALSE
    /\ montage = "none"

\* the client used on its own, with the default parameters: main is not running
ClientOnly ==
    /\ mainpc = "off"
    /\ call = DefaultCall
    /\ image = DefaultImage
    /\ no_montage = FALSE
    /\ InitPipeline

InitClient ==
    /\ pc = "idle"
    /\ i = 0
    /\ angle = 0
    /\ total_images = 0
    /\ results = << >>
    /\ attempt = 0
    /\ retry_delay = 0
    /\ last_error = << >>
    /\ returned = << >>
    /\ raised = NoException
    /\ requestedAngles = << >>
    /\ received = << >>
    /\ issued = 0
    /\ failLog = << >>
    /\ sleeps = << >>
    /\ throttles = << >>
    /\ sleptSince = 0
    /\ gap = << >>
    /\ inflight = 0
    /\ anyFailure = FALSE
    /\ numRequests = 0
    /\ sent = { }

\* small configurations, an endpoint free to answer anything
Init ==
    /\ config \in SmallConfigs
    /\ endpoint = FreeEndpoint
    /\ counting = FALSE
    /\ InitClient
    /\ ClientOnly

\* the small configurations with the shortest delays, an endpoint free to
\* answer anything, the requests counted
InitCounting ==
    /\ config \in { c \in SmallConfigs :
                       c.THROTTLE_DELAY = 1 /\ c.INITIAL_RETRY_DELAY = 1 }
    /\ endpoint = FreeEndpoint
    /\ counting = TRUE
    /\ InitClient
    /\ ClientOnly

\* the small configurations with the shortest delays, an endpoint free to
\* answer anything, either set of arguments
InitArgs ==
    /\ config \in { c \in SmallConfigs :
                       c.THROTTLE_DELAY = 1 /\ c.INITIAL_RETRY_DELAY = 1 }
    /\ endpoint = FreeEndpoint
    /\ counting = FALSE
    /\ InitClient
    /\ mainpc = "off"
    /\ call \in { DefaultCall, OtherCall }
    /\ image = DefaultImage
    /\ no_montage = FALSE
    /\ InitPipeline

\* the configuration of config.py, a mocked endpoint
InitDefault ==
    /\ config = DefaultConfig
    /\ endpoint \in MockEndpoints
    /\ counting = FALSE
    /\ InitClient
    /\ ClientOnly

-----------------------------------------------------------------------------
(* Steps *)

\* generate_multi_angle_views is called: results = [], total_images
generate_multi_angle_views ==
    /\ pc = "idle"
    /\ results' = << >>
    /\ total_images' = FULL_ROTATION \div ROTATION_INCREMENT
    /\ pc' = "loop"
    /\ UNCHANGED << call, sent, numRequests, pipeline, counting, config, endpoint, i, angle, attempt, retry_delay, last_error,
                    returned, raised, requestedAngles, received, issued, failLog,
                    sleeps, throttles, sleptSince, gap, inflight, anyFailure >>

\* the angle loop takes its next angle and enters time.sleep(THROTTLE_DELAY)
NextAngle ==
    /\ pc = "loop"
    /\ i < Len(Angles)
    /\ i' = i + 1
    /\ angle' = Angles[i + 1]
    /\ pc' = "throttle"
    /\ UNCHANGED << call, sent, numRequests, pipeline, counting, config, endpoint, total_images, results, attempt, retry_delay,
                    last_error, returned, raised, requestedAngles, received,
                    issued, failLog, sleeps, throttles, sleptSince, gap,
                    inflight, anyFailure >>

\* the angle loop is exhausted: return results
ReturnResults ==
    /\ pc = "loop"
    /\ i >= Len(Angles)
    /\ returned' = << results >>
    /\ pc' = "returned"
    /\ UNCHANGED << call, sent, numRequests, pipeline, counting, config, endpoint, i, angle, total_images, results, attempt,
                    retry_delay, last_error, raised, requestedAngles, received,
                    issued, failLog, sleeps, throttles, sleptSince, gap,
                    inflight, anyFailure >>

\* the throttle sleep ends; _call_api_with_retry starts with its first attempt
_apply_throttle ==
    /\ pc = "throttle"
    /\ throttles' = Append(throttles, ThrottleSleep)
    /\ sleptSince' = sleptSince + ThrottleSleep
    /\ retry_delay' = InitialRetryState.retry_delay
    /\ last_error' = InitialRetryState.last_error
    /\ issued' = 0
    /\ failLog' = << >>
    /\ sleeps' = << >>
    /\ IF 1 \in AttemptRange
       THEN /\ attempt' = 1
            /\ pc' = "call"
            /\ raised' = raised
       ELSE /\ attempt' = attempt
            /\ Propagate(GenerationFailed(<< >>))
    /\ UNCHANGED << call, sent, numRequests, pipeline, counting, config, endpoint, i, angle, total_images, results, returned,
                    requestedAngles, received, gap, inflight, anyFailure >>

\* fal_client.subscribe is called: the request leaves
Subscribe ==
    /\ pc = "call"
    /\ inflight' = inflight + 1
    /\ issued' = issued + 1
    /\ requestedAngles' =
           IF attempt = 1 THEN Append(requestedAngles, angle) ELSE requestedAngles
    /\ gap' = << sleptSince >>
    /\ sleptSince' = 0
    /\ pc' = "inflight"
    /\ numRequests' = IF counting THEN numRequests + 1 ELSE numRequests
    /\ sent' = sent \cup { [angle |-> angle,
                            arguments |-> Arguments(RotateRightLeft(angle))] }
    /\ UNCHANGED << call, pipeline, counting, config, endpoint, i, angle, total_images, results, attempt,
                    retry_delay, last_error, returned, raised, received, failLog,
                    sleeps, throttles, anyFailure >>

\* subscribe returns a result; _call_api_with_retry returns it; the angle
\* loop appends its entry, or fails on a result without image
SubscribeReturns ==
    /\ pc = "inflight"
    /\ \E result \in endpoint.payloads :
          /\ inflight' = inflight - 1
          /\ IF FirstImageError(result) # NoException
             THEN /\ Propagate(FirstImageError(result))
                  /\ UNCHANGED << results, received >>
             ELSE /\ results' = Append(results, ResultEntry(angle, result))
                  /\ received' = Append(received, [angle |-> angle, result |-> result])
                  /\ pc' = "loop"
                  /\ raised' = raised
    /\ UNCHANGED << call, sent, numRequests, pipeline, counting, config, endpoint, i, angle, total_images, attempt, retry_delay,
                    last_error, returned, requestedAngles, issued, failLog,
                    sleeps, throttles, sleptSince, gap, anyFailure >>

\* faulty except clauses: the first error is kept
LastErrorOfFirst(f) ==
    IF last_error # << >> THEN last_error
    ELSE IF f.kind = "Timeout" THEN << TRequestTimeout >>
    ELSE IF IsRateLimit(f.text) THEN << TRateLimitPrefix \o f.text >>
    ELSE << f.text >>

\* last_error as the except clauses of _call_api_with_retry set it
LastErrorOf(f) ==
    IF f.kind = "Timeout" THEN << TRequestTimeout >>
    ELSE IF IsRateLimit(f.text) THEN << TRateLimitPrefix \o f.text >>
    ELSE << f.text >>

\* subscribe raises: the except clauses, then the backoff sleep starts or
\* the attempts are exhausted
SubscribeRaises ==
    /\ pc = "inflight"
    /\ \E f \in endpoint.failures :
          /\ inflight' = inflight - 1
          /\ failLog' = Append(failLog, f)
          /\ anyFailure' = TRUE
          /\ IF f.kind # "Timeout" /\ IsRateLimit(f.text) /\ IsFinalAttempt(attempt)
             THEN /\ Propagate(RateLimitError(f.text))
                  /\ UNCHANGED << last_error, attempt >>
             ELSE /\ last_error' = LastErrorOf(f)
                  /\ IF ShouldSleep(attempt)
                     THEN /\ pc' = "backoff"
                          /\ UNCHANGED << attempt, raised >>
                     ELSE NextAttempt(LastErrorOf(f))
    /\ UNCHANGED << call, sent, numRequests, pipeline, counting, config, endpoint, i, angle, total_images, results, retry_delay,
                    returned, requestedAngles, received, issued, sleeps,
                    throttles, sleptSince, gap >>

\* the backoff sleep ends: the delay grows, the attempt loop goes on
Backoff ==
    /\ pc = "backoff"
    /\ sleeps' = Append(sleeps, retry_delay)
    /\ sleptSince' = sleptSince + retry_delay
    /\ retry_delay' = NextRetryDelay(retry_delay)
    /\ NextAttempt(last_error)
    /\ UNCHANGED << call, sent, numRequests, pipeline, counting, config, endpoint, i, angle, total_images, results, last_error,
                    returned, requestedAngles, received, issued, failLog,
                    throttles, gap, inflight, anyFailure >>

Next ==
    \/ generate_multi_angle_views
    \/ NextAngle
    \/ ReturnResults
    \/ _apply_throttle
    \/ Subscribe
    \/ SubscribeReturns
    \/ SubscribeRaises
    \/ Backoff

Spec == Init /\ [][Next]_vars

SpecDefault == InitDefault /\ [][Next]_vars

SpecArgs == InitArgs /\ [][Next]_vars

\* the client is never suspended for ever: every sleep ends and every call of
\* the endpoint returns or raises
SpecFair == InitCounting /\ [][Next]_vars /\ WF_vars(Next)

-----------------------------------------------------------------------------
(* main: validation, upload, generation, saving, montage *)

\* sys.exit(status), or the return of main handed to sys.exit
Exit(status) ==
    /\ exit_status' = << status >>
    /\ mainpc' = "exit"

\* the generation error swallowed: main goes on with what was collected
OnGenerationErrorContinue == [mainpc |-> "mkdir", exit_status |-> << >>]

\* except Exception around generate_multi_angle_views: sys.exit(1)
OnGenerationError == [mainpc |-> "exit", exit_status |-> << 1 >>]

\* except (FileNotFoundError, ValueError) around the validation: sys.exit(1)
OnValidationError == [mainpc |-> "exit", exit_status |-> << 1 >>]

\* validate_local_image and get_image_info; an empty info dictionary makes
\* the print of image_info['filename'] raise KeyError, which nothing catches
ProcessInputImage ==
    /\ mainpc = "validate"
    /\ verror' = ValidateLocalImage(image).raised
    /\ decodes' = ValidateLocalImage(image).decodes
    /\ IF ValidateLocalImage(image).raised # NoError
       THEN /\ mainpc' = OnValidationError.mainpc
            /\ exit_status' = OnValidationError.exit_status
       ELSE \E info_ok \in BOOLEAN :
               IF info_ok
               THEN mainpc' = "upload" /\ exit_status' = exit_status
               ELSE Exit(1)
    /\ UNCHANGED << client, call, sent, config, endpoint, counting, numRequests,
                    requestedAngles, received, issued, failLog, sleeps,
                    throttles, sleptSince, gap, inflight, anyFailure, image,
                    no_montage, to_save, save_idx, saved_files, save_returned,
                    save_raised, fetchLog, fetched, written, dirCreated, montage >>

\* upload_image_to_fal returns the data URI or raises IOError: sys.exit(1)
UploadImage ==
    /\ mainpc = "upload"
    /\ \E encoded \in BOOLEAN :
          IF encoded
          THEN mainpc' = "generate" /\ exit_status' = exit_status
          ELSE Exit(1)
    /\ UNCHANGED << client, call, sent, config, endpoint, counting, numRequests,
                    requestedAngles, received, issued, failLog, sleeps,
                    throttles, sleptSince, gap, inflight, anyFailure, image,
                    no_montage, verror, decodes, to_save, save_idx,
                    saved_files, save_returned, save_raised, fetchLog, fetched,
                    written, dirCreated, montage >>

\* generate_multi_angle_views has returned its list or raised
GenerationDone ==
    /\ mainpc = "generate"
    /\ pc \in {"returned", "raised"}
    /\ IF pc = "returned"
       THEN /\ mainpc' = "mkdir"
            /\ to_save' = returned[1]
            /\ exit_status' = exit_status
       ELSE /\ mainpc' = OnGenerationError.mainpc
            /\ exit_status' = OnGenerationError.exit_status
            /\ to_save' = to_save
    /\ UNCHANGED << client, call, sent, config, endpoint, counting, numRequests,
                    requestedAngles, received, issued, failLog, sleeps,
                    throttles, sleptSince, gap, inflight, anyFailure, image,
                    no_montage, verror, decodes, save_idx, saved_files,
                    save_returned, save_raised, fetchLog, fetched, written,
                    dirCreated, montage >>

\* create_output_directory: mkdir succeeds, or raises and main exits with 1
create_output_directory ==
    /\ mainpc = "mkdir"
    /\ \E made \in BOOLEAN :
          IF made
          THEN /\ dirCreated' = TRUE
               /\ mainpc' = "save"
               /\ save_idx' = 1
               /\ exit_status' = exit_status
          ELSE /\ Exit(1)
               /\ UNCHANGED << dirCreated, save_idx >>
    /\ UNCHANGED << client, call, sent, config, endpoint, counting, numRequests,
                    requestedAngles, received, issued, failLog, sleeps,
                    throttles, sleptSince, gap, inflight, anyFailure, image,
                    no_montage, verror, decodes, to_save, saved_files,
                    save_returned, save_raised, fetchLog, fetched, written, montage >>

\* one turn of the loop of save_generated_images
save_generated_images ==
    /\ mainpc = "save"
    /\ save_idx <= Len(to_save)
    /\ \E outcome \in FetchOutcomes :
          LET output_path == FileName(to_save[save_idx].angle, TPng)
              after == AfterFetch(outcome, output_path)
          IN  /\ fetchLog' = Append(fetchLog, outcome)
              /\ fetched' = Append(fetched, [idx |-> save_idx,
                                             url |-> to_save[save_idx].url])
              /\ written' = IF outcome = "ok" THEN written \cup {output_path}
                                              ELSE written
              /\ saved_files' = after.saved_files
              /\ save_raised' = after.raised
              /\ IF after.raised
                 THEN Exit(1) /\ save_idx' = save_idx
                 ELSE /\ save_idx' = NextSaveIdx(outcome)
                      /\ UNCHANGED << mainpc, exit_status >>
    /\ UNCHANGED << client, call, sent, config, endpoint, counting, numRequests,
                    requestedAngles, received, issued, failLog, sleeps,
                    throttles, sleptSince, gap, inflight, anyFailure, image,
                    no_montage, verror, decodes, to_save, save_returned,
                    dirCreated, montage >>

\* the loop is exhausted: return saved_files
SaveReturns ==
    /\ mainpc = "save"
    /\ save_idx > Len(to_save)
    /\ save_returned' = << saved_files >>
    /\ mainpc' = "saved"
    /\ UNCHANGED << client, call, sent, config, endpoint, counting, numRequests,
                    requestedAngles, received, issued, failLog, sleeps,
                    throttles, sleptSince, gap, inflight, anyFailure, image,
                    no_montage, verror, decodes, exit_status, to_save,
                    save_idx, saved_files, save_raised, fetchLog, fetched, written,
                    dirCreated, montage >>

\* the montage, when asked for and something was saved; create_montage
\* catches every exception and returns False; then the summary and return 0
CreateMontage ==
    /\ mainpc = "saved"
    /\ IF ~ no_montage /\ saved_files # << >>
       THEN \E made \in BOOLEAN :
               montage' = IF made THEN "created" ELSE "failed"
       ELSE montage' = "skipped"
    /\ Exit(0)
    /\ UNCHANGED << client, call, sent, config, endpoint, counting, numRequests,
                    requestedAngles, received, issued, failLog, sleeps,
                    throttles, sleptSince, gap, inflight, anyFailure, image,
                    no_montage, verror, decodes, to_save, save_idx,
                    saved_files, save_returned, save_raised, fetchLog, fetched,
                    written, dirCreated >>

\* main is started on any file, with or without --no-montage; the small
\* configurations of one or two angles, at most two attempts and the
\* shortest delays
InitMain ==
    /\ config \in { c \in SmallConfigs :
                       /\ c.THROTTLE_DELAY = 1 /\ c.INITIAL_RETRY_DELAY = 1
                       /\ c.FULL_ROTATION <= 2 * c.ROTATION_INCREMENT
                       /\ c.MAX_RETRIES <= 2 }
    /\ endpoint = FreeEndpoint
    /\ counting = FALSE
    /\ InitClient
    /\ mainpc = "validate"
    /\ call = DefaultCall
    /\ image \in ImageFiles
    /\ no_montage \in BOOLEAN
    /\ InitPipeline

NextMain ==
    \/ ProcessInputImage
    \/ UploadImage
    \/ (mainpc = "generate" /\ Next)
    \/ GenerationDone
    \/ create_output_directory
    \/ save_generated_images
    \/ SaveReturns
    \/ CreateMontage

SpecMain == InitMain /\ [][NextMain]_vars

\* save_generated_images is called on any list of entries
InitSave ==
    /\ config = DefaultConfig
    /\ endpoint = FreeEndpoint
    /\ counting = FALSE
    /\ InitClient
    /\ mainpc = "save"
    /\ call = DefaultCall
    /\ image = DefaultImage
    /\ no_montage = FALSE
    /\ verror = NoError
    /\ exit_status = << >>
    /\ to_save \in SaveInputs
    /\ save_idx = 1
    /\ saved_files = << >>
    /\ save_returned = << >>
    /\ save_raised = FALSE
    /\ decodes = 0
    /\ fetchLog = << >>
    /\ fetched = << >>
    /\ written = { }
    /\ dirCreated = TRUE
    /\ montage = "none"

NextSave ==
    \/ save_generated_images
    \/ SaveReturns

SpecSave == InitSave /\ [][NextSave]_vars

-----------------------------------------------------------------------------
(* Vocabulary of the properties *)

RECURSIVE Pow(_, _)
Pow(b, e) == IF e = 0 THEN 1 ELSE b * Pow(b, e - 1)

\* the multiples of the increment below the full rotation
AngleSet == { a \in 0 .. (FULL_ROTATION - 1) : a % ROTATION_INCREMENT = 0 }

StrictlyIncreasing(seq) ==
    \A k \in 1 .. (Len(seq) - 1) : seq[k] < seq[k + 1]

\* the kinds of failure, stated on the texts themselves
TimeoutFailure(f) == f.kind = "Timeout"
RateLimitFailure(f) == f.kind = "Error" /\ f.text \in {T429, TRateLimit}
OtherFailure(f) == f.kind = "Error" /\ f.text \in {TBoom, T500}

AllOf(log, P(_)) == \A k \in 1 .. Len(log) : P(log[k])

\* the latest _call_api_with_retry has returned a result to the angle loop:
\* the loop went on with its entry, or failed on a result without image
CallReturned ==
    /\ issued = Len(failLog) + 1
    /\ \/ /\ pc \in {"loop", "returned"}
          /\ raised = NoException
          /\ Len(results) = i
          /\ results[i].angle = angle
          /\ received[i].angle = angle
       \/ /\ pc = "raised"
          /\ raised \in {IndexError, KeyError}

-----------------------------------------------------------------------------
(* C1: with increment 5 and full rotation 360, a fully successful run has   *)
(* issued requests for exactly the 72 angles 0, 5, 10, ..., 355, in that    *)
(* order, strictly increasing, without duplicate and without gap.           *)
C1_AnglesOfDefaultRun ==
    pc = "returned" =>
        /\ Len(requestedAngles) = 72
        /\ \A k \in 1 .. 72 : requestedAngles[k] = 5 * (k - 1)
        /\ StrictlyIncreasing(requestedAngles)

C1_Witness ==
    /\ pc = "returned"
    /\ config.FULL_ROTATION = 360
    /\ config.ROTATION_INCREMENT = 5
    /\ Len(requestedAngles) = 72
    /\ requestedAngles[72] = 355

(* C2: when every call succeeds on its first attempt, the list returned     *)
(* holds exactly one result per angle, in increasing angle order, and each  *)
(* result's url and seed are the first image url and the seed of the        *)
(* response received for that angle.                                        *)
C2_ResultsVerbatim ==
    (pc = "returned" /\ ~anyFailure) =>
        LET res == returned[1] IN
        /\ Len(res) = Cardinality(AngleSet)
        /\ { res[k].angle : k \in 1 .. Len(res) } = AngleSet
        /\ StrictlyIncreasing([k \in 1 .. Len(res) |-> res[k].angle])
        /\ Len(received) = Len(res)
        /\ \A k \in 1 .. Len(res) :
              /\ received[k].angle = res[k].angle
              /\ res[k].url = received[k].result.images[1]
              /\ res[k].seed = received[k].result.seed

C2_Witness ==
    /\ pc = "returned"
    /\ ~anyFailure
    /\ Len(returned[1]) = 3
    /\ returned[1][1].seed = << 7 >>
    /\ returned[1][1].url = "u1"
    /\ returned[1][2].seed = << >>
    /\ returned[1][2].url = "u2"

(* C3: if the endpoint answers every attempt for an angle with a rate-limit *)
(* error, RateLimitError is raised after exactly MAX_RETRIES attempts: not  *)
(* while fewer attempts have failed, and no further attempt is issued.      *)
C3_RateLimitExhaustion ==
    /\ issued <= MAX_RETRIES
    /\ raised.type = "RateLimitError" =>
          issued = MAX_RETRIES /\ Len(failLog) = MAX_RETRIES
    /\ (AllOf(failLog, RateLimitFailure) /\ issued = Len(failLog) /\ issued > 0) =>
          /\ Len(failLog) < MAX_RETRIES =>
                raised = NoException /\ pc \in {"call", "backoff"}
          /\ Len(failLog) = MAX_RETRIES =>
                /\ pc = "raised"
                /\ raised.type = "RateLimitError"
                /\ raised.text = failLog[MAX_RETRIES].text
                /\ issued = MAX_RETRIES

C3_Witness ==
    /\ MAX_RETRIES = 3
    /\ Len(failLog) = 3
    /\ AllOf(failLog, RateLimitFailure)
    /\ failLog[1].text = TRateLimit
    /\ raised.type = "RateLimitError"

(* C4: if the endpoint answers every attempt for an angle with an error     *)
(* that is neither a rate limit nor a timeout, the generic exhaustion error *)
(* is raised after exactly MAX_RETRIES attempts and carries the message of  *)
(* the failure of the last attempt.                                         *)
C4_GenericExhaustion ==
    (AllOf(failLog, OtherFailure) /\ issued = Len(failLog) /\ issued > 0) =>
        /\ Len(failLog) < MAX_RETRIES =>
              raised = NoException /\ pc \in {"call", "backoff"}
        /\ Len(failLog) = MAX_RETRIES =>
              /\ pc = "raised"
              /\ raised.type = "Exception"
              /\ raised.after = MAX_RETRIES
              /\ raised.text = failLog[MAX_RETRIES].text
              /\ issued = MAX_RETRIES

C4_Witness ==
    /\ MAX_RETRIES = 3
    /\ Len(failLog) = 3
    /\ AllOf(failLog, OtherFailure)
    /\ failLog[1].text = TBoom
    /\ failLog[3].text = T500
    /\ raised.type = "Exception"

(* C5: if attempts 1..N-1 of an angle time out and attempt N succeeds       *)
(* (N <= MAX_RETRIES), the call returns that success, and the backoff sleep *)
(* after failed attempt k is min(initial * multiplier^(k-1), max delay),    *)
(* for every k in 1..N-1.                                                   *)
C5_BackoffSchedule ==
    (AllOf(failLog, TimeoutFailure) /\ issued = Len(failLog) + 1 /\ pc # "throttle") =>
        /\ pc # "inflight" => CallReturned
        /\ issued <= MAX_RETRIES
        /\ Len(sleeps) = issued - 1
        /\ \A k \in 1 .. (issued - 1) :
              sleeps[k] = Min(INITIAL_RETRY_DELAY * Pow(RETRY_BACKOFF_MULTIPLIER, k - 1),
                              MAX_RETRY_DELAY)

C5_Witness ==
    /\ CallReturned
    /\ Len(failLog) = 2
    /\ AllOf(failLog, TimeoutFailure)
    /\ INITIAL_RETRY_DELAY = 2
    /\ sleeps = << 2, MAX_RETRY_DELAY >>
    /\ MAX_RETRY_DELAY < 4

(* C6: a rate-limit error on an attempt before the MAX_RETRIES-th is        *)
(* retried (the client backs off, then calls again for the same angle);     *)
(* on the MAX_RETRIES-th attempt it raises RateLimitError, which leaves     *)
(* generate_multi_angle_views and ends the run: the angle is not skipped    *)
(* and nothing more is requested.                                           *)
C6_RateLimitRetryOrAbort ==
    [][ /\ ( /\ pc = "inflight"
             /\ Len(failLog') = Len(failLog) + 1
             /\ RateLimitFailure(failLog'[Len(failLog')]) ) =>
              IF attempt < MAX_RETRIES
              THEN /\ pc' = "backoff"
                   /\ raised' = NoException
                   /\ << i, angle, attempt, results >>' = << i, angle, attempt, results >>
              ELSE /\ pc' = "raised"
                   /\ raised'.type = "RateLimitError"
                   /\ << i, angle, results, returned >>' = << i, angle, results, << >> >>
        /\ pc = "backoff" =>
              /\ pc' = "call"
              /\ << i, angle, attempt >>' = << i, angle, attempt + 1 >>
        /\ (pc = "call" /\ attempt > 1) =>
              /\ pc' = "inflight"
              /\ issued' = issued + 1
              /\ << i, angle, requestedAngles >>' = << i, angle, requestedAngles >>
        /\ pc # "raised"
      ]_vars

C6_Witness ==
    /\ pc = "raised"
    /\ raised.type = "RateLimitError"
    /\ MAX_RETRIES = 3
    /\ AllOf(failLog, RateLimitFailure)
    /\ Len(failLog) = 3
    /\ sleeps = << 1, 2 >>
    /\ Cardinality(AngleSet) = 3
    /\ requestedAngles = << 0, 1 >>
    /\ Len(results) = 1

(* C7: if an angle exhausts its attempts without success,                   *)
(* generate_multi_angle_views raises: nothing is requested afterwards, and  *)
(* no partial list is returned (a list is returned only when every angle    *)
(* has its result).                                                         *)
C7_NoPartialResults ==
    /\ (issued = Len(failLog) /\ Len(failLog) >= MAX_RETRIES) =>
          /\ pc = "raised"
          /\ raised.type \in {"RateLimitError", "Exception"}
          /\ returned = << >>
          /\ inflight = 0
          /\ Len(requestedAngles) = i
          /\ requestedAngles[i] = angle
    /\ pc = "raised" => (returned = << >> /\ ~ ENABLED Next)
    /\ returned # << >> =>
          /\ raised = NoException
          /\ { returned[1][k].angle : k \in 1 .. Len(returned[1]) } = AngleSet
          /\ Len(returned[1]) = Cardinality(AngleSet)

C7_Witness ==
    /\ pc = "raised"
    /\ raised.type = "Exception"
    /\ Len(failLog) = MAX_RETRIES
    /\ Cardinality(AngleSet) = 3
    /\ Len(results) = 1
    /\ requestedAngles = << 0, 1 >>

(* C8: for every angle, the first angle 0 included, the client completes    *)
(* one throttle sleep of THROTTLE_DELAY before it issues the first request  *)
(* of that angle.                                                           *)
C8_ThrottleBeforeEveryAngle ==
    /\ \A k \in 1 .. Len(throttles) : throttles[k] = THROTTLE_DELAY
    /\ Len(throttles) = IF pc = "throttle" THEN i - 1 ELSE i
    /\ Len(requestedAngles) <= Len(throttles)
    /\ Len(requestedAngles) < Len(throttles) => (pc = "call" /\ attempt = 1)
    /\ (pc = "inflight" /\ attempt = 1) => gap = << THROTTLE_DELAY >>

C8_Witness ==
    /\ pc = "inflight"
    /\ attempt = 1
    /\ angle = 0
    /\ requestedAngles = << 0 >>
    /\ THROTTLE_DELAY = 2
    /\ throttles = << 2 >>

(* C9: at most one request is in flight at any time, and, when the initial  *)
(* retry delay is at least the throttle delay, the client has slept at      *)
(* least the throttle delay between any two consecutive requests (a retry   *)
(* of the same angle or the first attempt of the next angle).               *)
C9_OneInFlightAndSpacing ==
    /\ inflight \in {0, 1}
    /\ inflight = 1 <=> pc = "inflight"
    /\ ( /\ INITIAL_RETRY_DELAY >= THROTTLE_DELAY
         /\ (issued > 1 \/ Len(requestedAngles) > 1) ) =>
            gap[1] >= THROTTLE_DELAY

C9_Witness ==
    /\ pc = "inflight"
    /\ inflight = 1
    /\ attempt = 3
    /\ THROTTLE_DELAY = 2
    /\ INITIAL_RETRY_DELAY = 2
    /\ gap = << 3 >>
    /\ Len(requestedAngles) = 2

(* C10: for every positive increment and full rotation, a fully successful  *)
(* run requests full_rotation / rotation_increment angles (the total_images *)
(* the client computes and logs), starting at 0, strictly increasing,       *)
(* consecutive angles exactly one increment apart.                          *)
C10_AngleCountIsTotalImages ==
    pc = "returned" =>
        /\ Len(requestedAngles) = total_images
        /\ total_images = FULL_ROTATION \div ROTATION_INCREMENT
        /\ Len(requestedAngles) > 0 => requestedAngles[1] = 0
        /\ \A k \in 1 .. (Len(requestedAngles) - 1) :
              requestedAngles[k + 1] = requestedAngles[k] + ROTATION_INCREMENT

(* C15: no backoff sleep follows the MAX_RETRIES-th attempt: when an angle  *)
(* exhausts its attempts exactly MAX_RETRIES - 1 backoff sleeps were made   *)
(* for it and the error (generic or rate-limit) is raised directly after    *)
(* the final failed attempt.                                                *)
C15_NoSleepAfterFinalAttempt ==
    /\ Len(sleeps) <= MAX_RETRIES - 1
    /\ pc = "backoff" => Len(failLog) < MAX_RETRIES
    /\ (pc = "raised" /\ raised.type \in {"RateLimitError", "Exception"}) =>
          /\ Len(failLog) = MAX_RETRIES
          /\ Len(sleeps) = MAX_RETRIES - 1
          /\ sleptSince = 0

C15_Witness ==
    /\ pc = "raised"
    /\ raised.type = "Exception"
    /\ MAX_RETRIES = 3
    /\ Len(failLog) = 3
    /\ sleeps = << 2, 3 >>

(* C16: the retry delay lies between the initial and the maximum delay, it  *)
(* never decreases within the attempt loop of one angle, and every angle    *)
(* starts with the initial delay, attempt 1 and no last error, whatever     *)
(* failures the angles before it had.                                       *)
C16_RetryStatePerAngle ==
    /\ [] ( Len(throttles) >= 1 =>
              /\ retry_delay >= config.INITIAL_RETRY_DELAY
              /\ retry_delay <= config.MAX_RETRY_DELAY
              /\ attempt \in 1 .. config.MAX_RETRIES )
    /\ [][ /\ pc = "throttle" =>
                 /\ retry_delay' = config.INITIAL_RETRY_DELAY
                 /\ attempt' = 1
                 /\ last_error' = << >>
           /\ pc \in {"call", "inflight", "backoff"} => retry_delay' >= retry_delay
         ]_vars

C16_Witness ==
    /\ pc = "call"
    /\ i = 2
    /\ attempt = 1
    /\ retry_delay = 1
    /\ last_error = << >>
    /\ INITIAL_RETRY_DELAY = 1
    /\ Len(failLog) = 0
    /\ anyFailure

(* C17: the kind of exhaustion error depends only on the failure of the     *)
(* final attempt: RateLimitError exactly when that failure is a rate limit; *)
(* otherwise the generic error, even if every earlier attempt was rate      *)
(* limited, so the generic error never carries a rate-limit message.        *)
C17_ExhaustionKindByFinalAttempt ==
    (pc = "raised" /\ raised.type \in {"RateLimitError", "Exception"}) =>
        /\ Len(failLog) = MAX_RETRIES
        /\ raised.type = "RateLimitError" <=> RateLimitFailure(failLog[MAX_RETRIES])
        /\ raised.type = "Exception" =>
              /\ raised.text \in {TRequestTimeout, TBoom, T500}
              /\ TimeoutFailure(failLog[MAX_RETRIES]) => raised.text = TRequestTimeout
              /\ OtherFailure(failLog[MAX_RETRIES]) =>
                    raised.text = failLog[MAX_RETRIES].text

C17_Witness ==
    /\ pc = "raised"
    /\ raised.type = "Exception"
    /\ MAX_RETRIES = 3
    /\ RateLimitFailure(failLog[1])
    /\ RateLimitFailure(failLog[2])
    /\ TimeoutFailure(failLog[3])

(* C18: the collected results are the entries of a prefix of the angle      *)
(* sequence, ascending and without duplicate, and a request for an angle is *)
(* issued only while results holds an entry for every smaller angle and     *)
(* none for that angle or a larger one.                                     *)
C18_ResultsArePrefix ==
    /\ Len(results) <= Cardinality(AngleSet)
    /\ \A k \in 1 .. Len(results) : results[k].angle = (k - 1) * ROTATION_INCREMENT
    /\ pc \in {"call", "inflight", "backoff"} =>
          /\ angle \in AngleSet
          /\ { results[k].angle : k \in 1 .. Len(results) } =
                { a \in AngleSet : a < angle }

C18_Witness ==
    /\ pc = "inflight"
    /\ angle = 2
    /\ ROTATION_INCREMENT = 1
    /\ Len(results) = 2
    /\ results[2].angle = 1

(* C19: generation is exactly once per angle: every angle the run reaches   *)
(* gets at least 1 and at most MAX_RETRIES attempts, at most one of them    *)
(* succeeds, and nothing is requested for an angle after its success.       *)
C19_ExactlyOncePerAngle ==
    /\ issued <= MAX_RETRIES
    /\ \A k, m \in 1 .. Len(requestedAngles) :
          requestedAngles[k] = requestedAngles[m] => k = m
    /\ \A k, m \in 1 .. Len(received) : received[k].angle = received[m].angle => k = m
    /\ \A k \in 1 .. Len(received) :
          \E m \in 1 .. Len(requestedAngles) : requestedAngles[m] = received[k].angle
    /\ pc \in {"inflight", "backoff", "loop", "returned", "raised"} =>
          /\ Len(requestedAngles) = i
          /\ i >= 1 => issued >= 1
    /\ pc \in {"call", "inflight", "backoff"} =>
          \A k \in 1 .. Len(received) : received[k].angle # angle
    /\ pc = "returned" =>
          { requestedAngles[k] : k \in 1 .. Len(requestedAngles) } = AngleSet

C19_Witness ==
    /\ pc = "returned"
    /\ Len(received) = 3
    /\ issued = MAX_RETRIES
    /\ MAX_RETRIES = 3
    /\ anyFailure

(* C20: if every call of the endpoint returns or fails in finite time,      *)
(* generate_multi_angle_views terminates, returning or raising, and has     *)
(* issued at most (number of angles) * MAX_RETRIES requests, whatever the   *)
(* endpoint answers.                                                        *)
C20_TerminatesWithinRequestBudget ==
    /\ <>(pc \in {"returned", "raised"})
    /\ [](numRequests <= Cardinality(AngleSet) * MAX_RETRIES)
    /\ [](pc \in {"returned", "raised"} => ~ ENABLED Next)

C20_Witness ==
    /\ pc = "returned"
    /\ Cardinality(AngleSet) = 3
    /\ MAX_RETRIES = 3
    /\ numRequests = 9

-----------------------------------------------------------------------------
(* Claims about the image processor and main *)

RECURSIVE PathsOfSuccesses(_, _)
\* the file paths of the entries of input whose outcome in log is "ok", in
\* the order of input
PathsOfSuccesses(input, log) ==
    IF log = << >> THEN << >>
    ELSE LET n == Len(log)
             before == PathsOfSuccesses(input, SubSeq(log, 1, n - 1))
         IN  IF log[n] = "ok"
             THEN Append(before, FileName(input[n].angle, TPng))
             ELSE before

\* C11: save_generated_images never raises on a download failure: whatever
\* the list of entries and whichever downloads or writes fail, no exception
\* leaves it, the list it collects is at every moment the paths of the
\* entries handled so far whose download and write succeeded, in input
\* order, and it returns that list once every entry has been handled.
C11_SaveReturnsSuccessesInOrder ==
    /\ save_raised = FALSE
    /\ exit_status = << >>
    /\ Len(fetchLog) <= Len(to_save)
    /\ saved_files = PathsOfSuccesses(to_save, fetchLog)
    /\ (save_returned # << >>) <=> (mainpc = "saved")
    /\ save_returned # << >> =>
          /\ Len(fetchLog) = Len(to_save)
          /\ save_returned[1] = PathsOfSuccesses(to_save, fetchLog)
          /\ Len(save_returned[1])
               = Cardinality({ k \in 1 .. Len(fetchLog) : fetchLog[k] = "ok" })

\* three entries, the second of which fails with an HTTP error
C11_Witness ==
    /\ save_returned # << >>
    /\ fetchLog = << "ok", "http_error", "ok" >>
    /\ to_save[1].angle = 120 /\ to_save[3].angle = 5
    /\ save_returned[1] = << FileName(120, TPng), FileName(5, TPng) >>
    /\ FileName(5, TPng)
         = << "v", "i", "e", "w", "_", "0", "0", "5", "d", "e", "g", ".",
              "p", "n", "g" >>

\* the extension of the file is one of the supported formats, whatever its case
SupportedExtension(f) == Lower(Suffix(f.name)) \in SUPPORTED_FORMATS

\* C12 as stated: validate_local_image reports three error kinds decided by
\* the first failing check in the order not-found (the path does not exist),
\* unsupported-format (the extension is not supported), corrupt-image (the
\* decoding fails), and never decodes a missing or unsupported file.
C12_ThreeErrorKinds ==
    mainpc # "validate" =>
        /\ verror \in { NoError, FileNotFoundError, UnsupportedFormatError,
                         InvalidImageError }
        /\ ~ image.exists => verror = FileNotFoundError
        /\ image.exists /\ ~ SupportedExtension(image)
              => verror = UnsupportedFormatError
        /\ image.exists /\ SupportedExtension(image) /\ ~ image.decodable
              => verror = InvalidImageError
        /\ ~ image.exists \/ ~ SupportedExtension(image) => decodes = 0

\* C12, amended: validate_local_image reports four error kinds decided by
\* the first failing check in the order not-found (the path does not exist),
\* not-a-file (it exists but is not a regular file), unsupported-format (the
\* lower-cased extension is not supported), corrupt-image (the decoding
\* fails); the file is decoded once when the first three checks pass and
\* never otherwise.
C12_FourErrorKindsInOrder ==
    mainpc # "validate" =>
        /\ verror =
              IF ~ image.exists THEN FileNotFoundError
              ELSE IF ~ image.is_file THEN NotAFileError
              ELSE IF ~ SupportedExtension(image) THEN UnsupportedFormatError
              ELSE IF ~ image.decodable THEN InvalidImageError
              ELSE NoError
        /\ decodes = IF image.is_file /\ SupportedExtension(image) THEN 1 ELSE 0
        /\ verror \in { FileNotFoundError, NotAFileError,
                         UnsupportedFormatError } => decodes = 0

\* a directory whose name ends in a supported extension is rejected as not a
\* file, without being decoded
C12_Witness ==
    /\ mainpc = "exit"
    /\ image.exists /\ ~ image.is_file
    /\ image.name = << "a", ".", "p", "n", "g" >>
    /\ verror = NotAFileError
    /\ decodes = 0

\* nothing of the saving stage has happened
NothingSaved ==
    /\ ~ dirCreated
    /\ to_save = << >>
    /\ fetchLog = << >>
    /\ saved_files = << >>
    /\ written = { }
    /\ montage = "none"

\* C13: in main a validation, encoding or generation error ends the run with
\* a non-zero exit status and no later stage runs: after a failed validation
\* or encoding no generation request has been issued, after a failed
\* generation (RateLimitError included) no download has been attempted and
\* no file written, and the exited process takes no further step.
C13_ErrorsEndTheRun ==
    /\ verror # NoError => mainpc = "exit"
    /\ mainpc = "exit" => exit_status # << >> /\ ~ ENABLED NextMain
    /\ mainpc = "exit" /\ pc = "idle" =>
          /\ exit_status[1] # 0
          /\ requestedAngles = << >> /\ inflight = 0 /\ received = << >>
          /\ NothingSaved
    /\ pc = "raised" /\ mainpc # "generate" =>
          /\ mainpc = "exit"
          /\ exit_status[1] # 0
          /\ NothingSaved
    /\ pc # "idle" => verror = NoError /\ decodes = 1
    /\ exit_status = << 0 >> => pc = "returned" /\ verror = NoError

\* the second angle runs out of attempts on a rate limit after the first
\* angle was generated: main has exited with 1 and nothing was downloaded
C13_Witness ==
    /\ mainpc = "exit"
    /\ exit_status = << 1 >>
    /\ pc = "raised"
    /\ raised.type = "RateLimitError"
    /\ Len(results) = 1
    /\ NothingSaved

\* C14 as stated: once generation has succeeded for all angles main returns
\* exit status 0, however many downloads fail and whether or not the montage
\* fails.
C14_ExitZeroAfterGeneration ==
    mainpc = "exit" /\ pc = "returned" => exit_status = << 0 >>

\* C14, amended: once generation has succeeded for all angles and the output
\* directory has been created, main goes through every entry and returns
\* exit status 0, however many downloads fail (all of them included) and
\* whether or not the montage fails; when the output directory cannot be
\* created main exits with status 1.
C14_ExitZeroOnceDirectoryCreated ==
    /\ mainpc = "exit" /\ pc = "returned" =>
          exit_status = IF dirCreated THEN << 0 >> ELSE << 1 >>
    /\ dirCreated => exit_status \in { << >>, << 0 >> }
    /\ dirCreated /\ mainpc = "exit" =>
          /\ save_returned # << >>
          /\ Len(fetchLog) = Len(to_save)
          /\ montage \in { "created", "failed", "skipped" }
    /\ mainpc \in { "mkdir", "save", "saved" } => pc = "returned" /\ ENABLED NextMain
    /\ montage = "failed" => exit_status = << 0 >>

\* two angles generated, both downloads failed: exit status 0
C14_Witness ==
    /\ mainpc = "exit"
    /\ exit_status = << 0 >>
    /\ pc = "returned"
    /\ Len(to_save) = 2
    /\ Len(fetchLog) = 2
    /\ \A k \in 1 .. 2 : fetchLog[k] # "ok"
    /\ saved_files = << >>
    /\ written = { }

-----------------------------------------------------------------------------
(* Claims about the requests and the responses *)

\* the arguments of a request with the rotation left out
WithoutRotation(arguments) == [arguments EXCEPT !.rotate_right_left = 0]

\* C21: every request of a run, retries included, carries the image
\* reference and the generation parameters the run was called with, the same
\* in every request; only rotate_right_left differs, it is the angle itself
\* (a multiple of the increment from 0 below the full rotation, neither
\* reduced nor negated), and the requests of one angle are all alike.
C21_SameArgumentsExceptAngle ==
    /\ \A s \in sent :
          /\ s.arguments.rotate_right_left = s.angle
          /\ s.angle \in AngleSet
          /\ s.arguments.image_urls = << call.image_url >>
          /\ s.arguments.guidance_scale = call.guidance_scale
          /\ s.arguments.num_inference_steps = call.num_inference_steps
          /\ s.arguments.lora_scale = call.lora_scale
          /\ s.arguments.move_forward = call.move_forward
          /\ s.arguments.vertical_angle = call.vertical_angle
          /\ s.arguments.wide_angle_lens = call.wide_angle_lens
          /\ s.arguments.output_format = call.output_format
    /\ \A s, t \in sent :
          /\ WithoutRotation(s.arguments) = WithoutRotation(t.arguments)
          /\ s.angle = t.angle => s.arguments = t.arguments
    /\ { s.angle : s \in sent }
         = { requestedAngles[k] : k \in 1 .. Len(requestedAngles) }
    /\ Cardinality(sent) = Len(requestedAngles)

\* the third angle is in its second attempt, with arguments that differ from
\* the defaults
C21_Witness ==
    /\ pc = "inflight"
    /\ attempt = 2
    /\ angle = 2
    /\ call = OtherCall
    /\ Cardinality(sent) = 3
    /\ [angle |-> 2, arguments |-> Arguments(2)] \in sent

\* the exceptions of a result without image
NoImageErrors == { IndexError, KeyError }

\* C22: a response returned without error that holds no image (no images
\* key, or an empty list) is not retried: the step that receives it ends
\* generate_multi_angle_views with an exception that is not RateLimitError,
\* without a further request, without recording a result for the angle, and
\* no later angle is requested.
C22_NoImageAbortsWithoutRetry ==
    /\ [](raised \in NoImageErrors =>
            /\ pc = "raised"
            /\ ~ ENABLED Next
            /\ returned = << >>
            /\ requestedAngles[Len(requestedAngles)] = angle
            /\ Len(results) = i - 1
            /\ \A k \in 1 .. Len(results) : results[k].angle < angle
            /\ \A k \in 1 .. Len(received) : received[k].angle # angle)
    /\ [][(/\ pc = "inflight"
           /\ inflight' < inflight
           /\ failLog' = failLog
           /\ results' = results)
            => /\ pc' = "raised"
               /\ raised' \in NoImageErrors
               /\ raised'.type # "RateLimitError"
               /\ issued' = issued
               /\ requestedAngles' = requestedAngles]_vars

\* the second of three angles is answered, at its first attempt, by a result
\* without images key
C22_Witness ==
    /\ pc = "raised"
    /\ raised = KeyError
    /\ Len(Angles) = 3
    /\ i = 2
    /\ attempt = 1 /\ issued = 1
    /\ MAX_RETRIES = 3
    /\ Len(results) = 1

\* C23: save_generated_images attempts exactly one fetch for every entry of
\* its input, one after the other in input order and of that entry's url,
\* with no retry; while entries remain the next fetch can be made whatever
\* failed before, and the function returns only when every entry has had
\* its fetch.
C23_OneFetchPerResultInOrder ==
    /\ Len(fetched) = Len(fetchLog)
    /\ Len(fetched) <= Len(to_save)
    /\ \A k \in 1 .. Len(fetched) :
          fetched[k] = [idx |-> k, url |-> to_save[k].url]
    /\ Len(fetched) < Len(to_save) =>
          /\ mainpc = "save"
          /\ save_idx = Len(fetched) + 1
          /\ ENABLED save_generated_images
          /\ save_returned = << >>
    /\ Len(fetched) = Len(to_save) =>
          mainpc = "saved" \/ (ENABLED SaveReturns /\ ~ ENABLED save_generated_images)

\* three entries: the first two fail in different ways, the third is
\* fetched and saved all the same
C23_Witness ==
    /\ save_returned # << >>
    /\ Len(to_save) = 3
    /\ fetchLog = << "get_raises", "write_error", "ok" >>
    /\ Len(fetched) = 3
    /\ fetched[3].url = to_save[3].url
    /\ to_save[1].url = to_save[3].url
    /\ Len(saved_files) = 1

=============================================================================
